---- MODULE Spec2Model ----
(***************************************************************************)
(* Model of the energy-model functions of the repository:                  *)
(*   energy_model_functions.py  load_country_weather_data, solar_PV_model, *)
(*                              calc_hdd_cdd, calc_national_wd_demand_2017 *)
(*   load_a_netcdf_example.py   load_weather_data_daily and the driver     *)
(*                              statement at module level.                 *)
(*                                                                         *)
(* Numbers are exact rationals <<n, d>> in lowest terms with d > 0, so     *)
(* that the unit conversions (- 273.15, / 3600.) are real arithmetic.      *)
(* Arrays are nested sequences, indexed [time][lat][lon] or [lat][lon].    *)
(* A Python call is one action; it ends either by returning a value or by  *)
(* raising an exception, recorded in `outcome`, and leaves the locals it   *)
(* had bound at that point in `frame`. The module-level statement of       *)
(* load_a_netcdf_example.py is a call whose frame is the module namespace. *)
(***************************************************************************)
EXTENDS Integers, Sequences, FiniteSets, TLC

VARIABLES
    countries_shp,        \* the boundary dataset: a sequence of records
    dataset,              \* the NetCDF file: longitude, latitude, variables
    call,                 \* the last call made: function name and arguments
    outcome,              \* how that call ended: returned value or exception
    frame                 \* locals of that call when it ended

vars == <<countries_shp, dataset, call, outcome, frame>>

----------------------------------------------------------------------------
(* Bounds of the model *)

MaxTime == 2      \* time steps in the file
MaxNx == 3        \* longitudes in the file
MaxNy == 2        \* latitudes in the file

----------------------------------------------------------------------------
(* Exact rational arithmetic standing for numpy's float arithmetic *)

RECURSIVE GCD(_, _)
GCD(a, b) == IF b = 0 THEN a ELSE GCD(b, a % b)

Abs(n) == IF n < 0 THEN -n ELSE n

Norm(n, d) ==
    LET s == IF d < 0 THEN -1 ELSE 1
        g == GCD(Abs(n), Abs(d))
    IN  <<(s * n) \div g, (s * d) \div g>>

Rat(n) == <<n, 1>>

RatAdd(a, b) ==
    LET g == GCD(a[2], b[2])
        l == (a[2] \div g) * b[2]
    IN  Norm(a[1] * (l \div a[2]) + b[1] * (l \div b[2]), l)

RatNeg(a) == <<-a[1], a[2]>>

RatSub(a, b) == RatAdd(a, RatNeg(b))

RatMul(a, b) ==
    LET g1 == GCD(Abs(a[1]), b[2])
        g2 == GCD(Abs(b[1]), a[2])
    IN  Norm((a[1] \div g1) * (b[1] \div g2), (a[2] \div g2) * (b[2] \div g1))

\* a / b for b # 0
RatDiv(a, b) == RatMul(a, Norm(b[2], b[1]))

RatLeq(a, b) == a[1] * b[2] <= b[1] * a[2]

RECURSIVE RatSum(_)
RatSum(s) == IF s = <<>> THEN Rat(0) ELSE RatAdd(s[1], RatSum(Tail(s)))

----------------------------------------------------------------------------
(* numpy array helpers *)

\* array - c and array / c, elementwise over a [time][lat][lon] array
array_sub(a, c) ==
    [t \in 1..Len(a) |-> [j \in 1..Len(a[t]) |-> [i \in 1..Len(a[t][j]) |->
        RatSub(a[t][j][i], c)]]]
array_div(a, c) ==
    [t \in 1..Len(a) |-> [j \in 1..Len(a[t]) |-> [i \in 1..Len(a[t][j]) |->
        RatDiv(a[t][j][i], c)]]]

\* numpy's shape of a 3-d and of a 2-d array (every grid of the model is non-empty)
Shape3(a) == <<Len(a), Len(a[1]), Len(a[1][1])>>
Shape2(m) == <<Len(m), Len(m[1])>>

\* row-major flatten of a 2-d array
RECURSIVE Flatten(_)
Flatten(m) == IF m = <<>> THEN <<>> ELSE m[1] \o Flatten(Tail(m))

----------------------------------------------------------------------------
(* shapely: a geometry is a sequence of rings (the shells of a MultiPolygon), *)
(* a ring a sequence of vertices <<x, y>>, closed from the last to the first. *)

Min(a, b) == IF a <= b THEN a ELSE b
Max(a, b) == IF a >= b THEN a ELSE b

Next_vertex(ring, k) == ring[(k % Len(ring)) + 1]

\* p lies on the closed segment a-b
OnSegment(p, a, b) ==
    /\ (b[1] - a[1]) * (p[2] - a[2]) = (b[2] - a[2]) * (p[1] - a[1])
    /\ Min(a[1], b[1]) <= p[1] /\ p[1] <= Max(a[1], b[1])
    /\ Min(a[2], b[2]) <= p[2] /\ p[2] <= Max(a[2], b[2])

OnRing(p, ring) ==
    \E k \in 1..Len(ring) : OnSegment(p, ring[k], Next_vertex(ring, k))

\* the horizontal ray from p towards +x crosses edge a-b
RayCrosses(p, a, b) ==
    /\ (a[2] > p[2]) # (b[2] > p[2])
    /\ LET dy == b[2] - a[2]
           lhs == (p[1] - a[1]) * dy
           rhs == (p[2] - a[2]) * (b[1] - a[1])
       IN  IF dy > 0 THEN lhs < rhs ELSE lhs > rhs

\* p lies in the interior of the polygon bounded by ring
InRingInterior(p, ring) ==
    /\ ~OnRing(p, ring)
    /\ Cardinality({k \in 1..Len(ring) : RayCrosses(p, ring[k], Next_vertex(ring, k))}) % 2 = 1

OnBoundary(geometry, p) == \E r \in 1..Len(geometry) : OnRing(p, geometry[r])

\* a plausible slip: the predicate that counts boundary points (shapely's covers)
covers(geometry, p) ==
    \E r \in 1..Len(geometry) : InRingInterior(p, geometry[r]) \/ OnRing(p, geometry[r])

\* geometry.contains(Point): the point lies in the interior, never on the boundary
contains(geometry, p) ==
    \E r \in 1..Len(geometry) : InRingInterior(p, geometry[r])

----------------------------------------------------------------------------
(* Python name resolution *)

\* names bound at module level in energy_model_functions.py
ModuleGlobals ==
    {"np", "shpreader", "Dataset", "shapely", "load_country_weather_data",
     "solar_PV_model", "calc_hdd_cdd", "calc_national_wd_demand_2017"}

\* the builtins the functions mention
Builtins == {"len", "range", "print"}

\* a name read in a function body resolves to a local, a global or a builtin
Resolves(name, locals) == name \in locals \union ModuleGlobals \union Builtins

Raised(kind) == [kind |-> kind]
Returned(value) == [kind |-> "returned", value |-> value]

----------------------------------------------------------------------------
(* The loaders *)

KELVIN == Norm(27315, 100)      \* 273.15
SECONDS_PER_HOUR == Rat(3600)   \* 3600.

\* a plausible slip: both conversions guarded by the same key
load_weather_data_daily_slip(nc_key) ==
    LET lons == dataset.longitude
        lats == dataset.latitude
        data0 == dataset.variables[nc_key]
        data1 == IF nc_key = "t2m" THEN array_sub(data0, KELVIN) ELSE data0
        data2 == IF nc_key = "t2m" THEN array_div(data1, SECONDS_PER_HOUR) ELSE data1
    IN  Returned(<<data2, lons, lats>>)

\* load_weather_data_daily(data_dir, filename, nc_key)
load_weather_data_daily(nc_key) ==
    LET lons == dataset.longitude
        lats == dataset.latitude
        data0 == dataset.variables[nc_key]
        data1 == IF nc_key = "t2m" THEN array_sub(data0, KELVIN) ELSE data0
        data2 == IF nc_key = "ssrd" THEN array_div(data1, SECONDS_PER_HOUR) ELSE data1
    IN  Returned(<<data2, lons, lats>>)

\* np.meshgrid(lons, lats): two [lat][lon] grids
meshgrid(lons, lats) ==
    <<[j \in 1..Len(lats) |-> [i \in 1..Len(lons) |-> lons[i]]],
      [j \in 1..Len(lats) |-> [i \in 1..Len(lons) |-> lats[j]]]>>

\* a plausible slip: the flat vector refilled column by column
reshape_slip(M, ny, nx) ==
    [j \in 1..ny |-> [i \in 1..nx |-> M[(i - 1) * ny + j]]]

\* np.reshape(M, (ny, nx)) of a flat vector, row-major
reshape(M, ny, nx) ==
    [j \in 1..ny |-> [i \in 1..nx |-> M[(j - 1) * nx + i]]]

\* data * mask, the [lat][lon] mask broadcast over time
apply_mask(data, mask) ==
    [t \in 1..Len(data) |-> [j \in 1..Len(data[t]) |->
        [i \in 1..Len(data[t][j]) |-> RatMul(data[t][j][i], mask[j][i])]]]

\* a plausible slip: the name test left out, every record appended
RECURSIVE matched_geometries_slip(_, _)
matched_geometries_slip(records, COUNTRY) ==
    IF records = <<>> THEN <<>>
    ELSE <<records[1].geometry>> \o matched_geometries_slip(Tail(records), COUNTRY)

\* the records loop: geometries of the records whose NAME_LONG is COUNTRY, in order
RECURSIVE matched_geometries(_, _)
matched_geometries(records, COUNTRY) ==
    IF records = <<>> THEN <<>>
    ELSE (IF records[1].NAME_LONG = COUNTRY THEN <<records[1].geometry>> ELSE <<>>)
         \o matched_geometries(Tail(records), COUNTRY)

\* load_country_weather_data(COUNTRY, data_dir, filename, nc_key):
\* the outcome of the call and the locals bound when it ended
load_country_weather_data(COUNTRY, nc_key) ==
    LET country_shapely == matched_geometries(countries_shp, COUNTRY)
        lons == dataset.longitude
        lats == dataset.latitude
        data0 == dataset.variables[nc_key]
        data1 == IF nc_key = "t2m" THEN array_sub(data0, KELVIN) ELSE data0
        data == IF nc_key = "ssrd" THEN array_div(data1, SECONDS_PER_HOUR) ELSE data1
        grids == meshgrid(lons, lats)
        x == Flatten(grids[1])
        y == Flatten(grids[2])
        zeros == [k \in 1..Len(x) |-> Rat(0)]
        \* the loop body reads country_shapely[0] at its first pass
        loop_raises == Len(x) > 0 /\ country_shapely = <<>>
        MASK_MATRIX ==
            IF loop_raises THEN zeros
            ELSE [k \in 1..Len(x) |->
                    IF contains(country_shapely[1], <<x[k], y[k]>>) THEN Rat(1) ELSE Rat(0)]
        MASK_MATRIX_RESHAPE == reshape(MASK_MATRIX, Len(lats), Len(lons))
        \* line 55 opens the file and line 59 closes it, before the loop starts
        locals == [country_shapely |-> country_shapely,
                   io |-> <<"shpreader.Reader", "Dataset", "close">>,
                   lons |-> lons, lats |-> lats, data |-> data,
                   MASK_MATRIX |-> MASK_MATRIX]
    IN  IF loop_raises
        THEN [outcome |-> Raised("IndexError"), frame |-> locals]
        ELSE [outcome |-> Returned(<<apply_mask(data, MASK_MATRIX_RESHAPE), MASK_MATRIX_RESHAPE>>),
              frame |-> locals]

----------------------------------------------------------------------------
(* Python values carry their type: a numpy scalar (ndim 0), a numpy array  *)
(* of ndim 1 (series), 2 ([lat][lon]) or 3 ([time][lat][lon]), an int, or   *)
(* a function or module object                                             *)

Scalar(v) == [type |-> "ndarray", ndim |-> 0, v |-> v]
Series(v) == [type |-> "ndarray", ndim |-> 1, v |-> v]
A2(v) == [type |-> "ndarray", ndim |-> 2, v |-> v]
A3(v) == [type |-> "ndarray", ndim |-> 3, v |-> v]
PyInt(n) == [type |-> "int", v |-> n]
PyObject(name) == [type |-> "object", v |-> name]

RECURSIVE Flatten3(_)
Flatten3(a) == IF a = <<>> THEN <<>> ELSE Flatten(a[1]) \o Flatten3(Tail(a))

Shape(a) ==
    IF a.ndim = 3 THEN Shape3(a.v)
    ELSE IF a.ndim = 2 THEN Shape2(a.v)
    ELSE IF a.ndim = 1 THEN <<Len(a.v)>>
    ELSE <<>>

Flat(a) ==
    IF a.ndim = 3 THEN Flatten3(a.v)
    ELSE IF a.ndim = 2 THEN Flatten(a.v)
    ELSE IF a.ndim = 1 THEN a.v
    ELSE <<a.v>>

\* np.average(a, weights=w) with no axis given: numpy refuses weights whose
\* shape differs from a's, refuses weights that sum to zero, and otherwise
\* reduces over every axis to one scalar
np_average(a, w) ==
    IF Shape(a) # Shape(w) THEN Raised("TypeError")
    ELSE LET fa == Flat(a)
             fw == Flat(w)
             scl == RatSum(fw)
         IN  IF scl = Rat(0) THEN Raised("ZeroDivisionError")
             ELSE Returned(Scalar(RatDiv(RatSum([k \in 1..Len(fa) |-> RatMul(fa[k], fw[k])]), scl)))

\* len(v): a numpy scalar has no len()
py_len(v) == IF v.ndim = 0 THEN Raised("TypeError") ELSE Returned(PyInt(Len(v.v)))

\* a name read in a function body: the local, else the module global, else the builtin
LookupName(name, locals) ==
    IF name \in DOMAIN locals THEN Returned(locals[name])
    ELSE IF name \in ModuleGlobals THEN Returned(PyObject(name))
    ELSE IF name \in Builtins THEN Returned(PyObject(name))
    ELSE Raised("NameError")

\* np.zeros(n): n must be an integer, a function object is refused
np_zeros(n) ==
    IF n.type = "int" THEN Returned(Series([k \in 1..n.v |-> Rat(0)])) ELSE Raised("TypeError")

----------------------------------------------------------------------------
(* The models *)

HDD_THRESHOLD == Norm(155, 10)   \* 15.5
CDD_THRESHOLD == Rat(22)         \* 22.0

\* the two loops of calc_hdd_cdd over range(0, n)
HDD_loop(spatial_mean_t2m, n) ==
    [i \in 1..n |-> IF RatLeq(spatial_mean_t2m[i], HDD_THRESHOLD)
                    THEN RatSub(HDD_THRESHOLD, spatial_mean_t2m[i]) ELSE Rat(0)]
CDD_loop(spatial_mean_t2m, n) ==
    [i \in 1..n |-> IF RatLeq(CDD_THRESHOLD, spatial_mean_t2m[i])
                    THEN RatSub(spatial_mean_t2m[i], CDD_THRESHOLD) ELSE Rat(0)]

\* calc_hdd_cdd(t2m_array, country_mask), statement by statement
calc_hdd_cdd(t2m_array, country_mask) ==
    LET args == [t2m_array |-> t2m_array, country_mask |-> country_mask]
        avg == np_average(t2m_array, country_mask)                      \* line 153
    IN  IF avg.kind # "returned" THEN [outcome |-> avg, frame |-> args]
        ELSE
        LET l1 == [spatial_mean_t2m |-> avg.value] @@ args
            n == py_len(avg.value)                                      \* line 154
        IN  IF n.kind # "returned" THEN [outcome |-> n, frame |-> l1]
            ELSE
            LET l2 == [timeseries_len |-> n.value] @@ l1
                h == np_zeros(n.value)                                  \* line 156
                l3 == [HDD_term |-> h.value] @@ l2
                len_ == LookupName("len", l3)                           \* line 157
                c == np_zeros(len_.value)
                bound == LookupName("len_of_training_period", l3)       \* line 159
            IN  IF len_.kind # "returned" THEN [outcome |-> len_, frame |-> l3]
                ELSE IF c.kind # "returned" THEN [outcome |-> c, frame |-> l3]
                ELSE IF bound.kind # "returned" THEN [outcome |-> bound, frame |-> l3]
                ELSE [outcome |-> Returned(<<Series(HDD_loop(avg.value.v, bound.value.v)),
                                             Series(CDD_loop(avg.value.v, bound.value.v))>>),
                      frame |-> l3]

T_ref == 25
G_ref == 1000
eff_ref == Norm(9, 10)           \* 0.9
beta_ref == Norm(42, 10000)      \* 0.0042

\* one cell of lines 117-119
capacity_factor_of_pannel(T, G) ==
    RatMul(RatMul(eff_ref, RatSub(Rat(1), RatMul(beta_ref, RatSub(T, Rat(T_ref))))),
           RatDiv(G, Rat(G_ref)))

\* solar_PV_model(country_masked_data_T2m, country_masked_data_ssrd)
solar_PV_model(country_masked_data_T2m, country_masked_data_ssrd) ==
    LET locals == [country_masked_data_T2m |-> country_masked_data_T2m,
                   country_masked_data_ssrd |-> country_masked_data_ssrd,
                   T_ref |-> Scalar(Rat(T_ref)), eff_ref |-> Scalar(eff_ref),
                   beta_ref |-> Scalar(beta_ref), G_ref |-> Scalar(Rat(G_ref))]
        T == LookupName("Masked_T2m", locals)                           \* line 117
        G == LookupName("Masked_SWGDN", locals)                         \* line 119
        W == LookupName("MASK_MATRIX_RESHAPE", locals)                  \* line 122
    IN  IF T.kind # "returned" THEN [outcome |-> T, frame |-> locals]
        ELSE IF G.kind # "returned" THEN [outcome |-> G, frame |-> locals]
        ELSE IF W.kind # "returned" THEN [outcome |-> W, frame |-> locals]
        ELSE LET cf == A3([t \in 1..Len(T.value.v) |-> [j \in 1..Len(T.value.v[t]) |->
                          [i \in 1..Len(T.value.v[t][j]) |->
                              capacity_factor_of_pannel(T.value.v[t][j][i], G.value.v[t][j][i])]]])
                 avg == np_average(cf, W.value)
             IN  [outcome |-> IF avg.kind = "returned" THEN Returned(avg.value) ELSE avg,
                  frame |-> locals]

\* calc_national_wd_demand_2017(hdd, cdd, filestr_reg_coefficients, COUNTRY):
\* the body is the return statement alone
calc_national_wd_demand_2017(hdd, cdd, filestr_reg_coefficients, COUNTRY) ==
    LET locals == [hdd |-> hdd, cdd |-> cdd,
                   filestr_reg_coefficients |-> filestr_reg_coefficients,
                   COUNTRY |-> COUNTRY]
        r == LookupName("demand_timeseries", locals)                    \* line 202
    IN  [outcome |-> r, frame |-> locals]

----------------------------------------------------------------------------
(* The data the functions read *)

Box(x0, y0, x1, y1) == <<<<x0, y0>>, <<x1, y0>>, <<x1, y1>>, <<x0, y1>>>>
Triangle(a, b, c) == <<a, b, c>>

\* boundary datasets: records with a NAME_LONG attribute and a geometry
Boundaries ==
    { <<[NAME_LONG |-> "France", geometry |-> <<Box(0, 0, 4, 4)>>],
        [NAME_LONG |-> "Czech Republic",
         geometry |-> <<Triangle(<<0, 0>>, <<7, 0>>, <<0, 7>>)>>],
        [NAME_LONG |-> "France", geometry |-> <<Box(5, 0, 9, 4)>>]>>,
      <<[NAME_LONG |-> "Czech Republic", geometry |-> <<Box(-1, -1, 12, 12)>>],
        [NAME_LONG |-> "France", geometry |-> <<Box(5, 0, 9, 4), Box(2, 0, 4, 4)>>]>> }

Countries == {"France", "Czech Republic", "Atlantis"}

Keys == {"t2m", "ssrd", "u10"}

\* values as stored in the file: Kelvin, J h-1 m-2, m s-1
RawValues(nc_key) ==
    IF nc_key = "t2m"
    THEN <<Norm(29815, 100), Norm(28315, 100), Norm(28865, 100), Norm(29515, 100), Norm(30015, 100)>>
    ELSE IF nc_key = "ssrd"
    THEN <<Rat(3600000), Rat(0), Rat(1800000), Rat(900)>>
    ELSE <<Rat(0), Norm(-3, 2), Rat(7)>>

\* variant 0 is a uniform field, the others vary in time and space
Field(nc_key, seed, nt, ny, nx) ==
    LET vals == RawValues(nc_key)
    IN  [t \in 1..nt |-> [j \in 1..ny |-> [i \in 1..nx |->
            IF seed = 0 THEN vals[1]
            ELSE vals[((seed + 3 * (t - 1) + 2 * (j - 1) + (i - 1)) % Len(vals)) + 1]]]]

\* regular grids: longitudes ascending, latitudes descending as in ERA5
Longitudes == {[i \in 1..nx |-> 3 * (i - 1)] : nx \in {1, MaxNx}}
Latitudes == {[j \in 1..ny |-> 4 - (j - 1)] : ny \in {1, MaxNy}}

Files ==
    {[longitude |-> lons, latitude |-> lats,
      variables |-> [k \in Keys |-> Field(k, seed, nt, Len(lats), Len(lons))]] :
        lons \in Longitudes, lats \in Latitudes, nt \in {1, MaxTime}, seed \in {0, 1}}

\* the published coefficient table: key (underscores for spaces) -> <<b0, b1, b2>>
RegressionCoefficients ==
    [c \in {"Czech_Republic", "France"} |->
        IF c = "France" THEN <<Rat(100), Rat(2), Rat(3)>> ELSE <<Rat(50), Rat(1), Norm(1, 2)>>]

DemandCountries == {"Czech_Republic", "France", "Atlantis"}

\* pairs (hdd, cdd) of equal length
DegreeDayPairs ==
    {<<Series(<<Rat(1), Rat(0)>>), Series(<<Rat(0), Rat(1)>>)>>,
     <<Series(<<Norm(11, 2)>>), Series(<<Rat(0)>>)>>}

None == [type |-> "NoneType"]

----------------------------------------------------------------------------
(* The state machine: any of the functions may be called, in any order *)

Init ==
    /\ countries_shp \in Boundaries
    /\ dataset \in Files
    /\ call = [fn |-> "none"]
    /\ outcome = [kind |-> "none"]
    /\ frame = [io |-> <<>>]

Call_load_country_weather_data ==
    \E COUNTRY \in Countries, nc_key \in Keys :
        LET r == load_country_weather_data(COUNTRY, nc_key)
        IN  /\ call' = [fn |-> "load_country_weather_data", COUNTRY |-> COUNTRY, nc_key |-> nc_key]
            /\ outcome' = r.outcome
            /\ frame' = r.frame
            /\ UNCHANGED <<countries_shp, dataset>>

Call_load_weather_data_daily ==
    \E nc_key \in Keys :
        /\ call' = [fn |-> "load_weather_data_daily", nc_key |-> nc_key]
        /\ outcome' = load_weather_data_daily(nc_key)
        /\ frame' = [io |-> <<"Dataset", "close">>]
        /\ UNCHANGED <<countries_shp, dataset>>

\* load_a_netcdf_example.py line 62: the call and the unpacking of its triple
Run_load_a_netcdf_example ==
    LET r == load_weather_data_daily("t2m")
    IN  /\ call' = [fn |-> "load_a_netcdf_example", nc_key |-> "t2m"]
        /\ outcome' = Returned(None)
        /\ frame' = [ERA5_data_jan_1979 |-> r.value[1], lats |-> r.value[2], lons |-> r.value[3]]
        /\ UNCHANGED <<countries_shp, dataset>>

\* the pairs (country_masked_data, MASK_MATRIX_RESHAPE) a caller can hold for
\* nc_key: what load_country_weather_data returns for the file
MaskedPairs(nc_key) ==
    LET r == [c \in Countries |-> load_country_weather_data(c, nc_key).outcome]
    IN  {[COUNTRY |-> c, data |-> r[c].value[1], mask |-> r[c].value[2]] :
            c \in {k \in Countries : r[k].kind = "returned"}}

\* calc_hdd_cdd on masked temperatures: the whole [time,lat,lon] array or one
\* [lat,lon] time step of it, with the mask returned alongside
Call_calc_hdd_cdd ==
    \E held \in MaskedPairs("t2m"), whole \in BOOLEAN :
        LET t2m_array == IF whole THEN A3(held.data) ELSE A2(held.data[1])
            r == calc_hdd_cdd(t2m_array, A2(held.mask))
        IN  /\ call' = [fn |-> "calc_hdd_cdd", t2m_array |-> t2m_array,
                        country_mask |-> A2(held.mask)]
            /\ outcome' = r.outcome
            /\ frame' = r.frame
            /\ UNCHANGED <<countries_shp, dataset>>

\* solar_PV_model on the masked temperatures and irradiances of one country
Call_solar_PV_model ==
    \E T \in MaskedPairs("t2m"), S \in MaskedPairs("ssrd") :
        /\ T.COUNTRY = S.COUNTRY
        /\ LET r == solar_PV_model(A3(T.data), A3(S.data))
           IN  /\ call' = [fn |-> "solar_PV_model", country_masked_data_T2m |-> A3(T.data),
                           country_masked_data_ssrd |-> A3(S.data), mask |-> A2(T.mask)]
               /\ outcome' = r.outcome
               /\ frame' = r.frame
        /\ UNCHANGED <<countries_shp, dataset>>

Call_calc_national_wd_demand_2017 ==
    \E d \in DegreeDayPairs, COUNTRY \in DemandCountries :
        LET r == calc_national_wd_demand_2017(d[1], d[2], "coefficients.csv", COUNTRY)
        IN  /\ call' = [fn |-> "calc_national_wd_demand_2017", hdd |-> d[1], cdd |-> d[2],
                        COUNTRY |-> COUNTRY]
            /\ outcome' = r.outcome
            /\ frame' = r.frame
            /\ UNCHANGED <<countries_shp, dataset>>

Next ==
    \/ Call_load_country_weather_data
    \/ Call_load_weather_data_daily
    \/ Run_load_a_netcdf_example
    \/ Call_calc_hdd_cdd
    \/ Call_solar_PV_model
    \/ Call_calc_national_wd_demand_2017

Spec == Init /\ [][Next]_vars

----------------------------------------------------------------------------
(* Vocabulary of the properties *)

\* the records of the boundary dataset whose NAME_LONG is the COUNTRY of the call
MatchedRecords == {r \in 1..Len(countries_shp) : countries_shp[r].NAME_LONG = call.COUNTRY}

\* the geometry of the first of them
FirstMatched == countries_shp[CHOOSE r \in MatchedRecords : \A q \in MatchedRecords : r <= q].geometry

CountryCall == call.fn = "load_country_weather_data"
CountryReturned == CountryCall /\ outcome.kind = "returned"

\* the centre of grid cell (j, i)
Centre(j, i) == <<dataset.longitude[i], dataset.latitude[j]>>

Cells == {<<j, i>> : j \in 1..Len(dataset.latitude), i \in 1..Len(dataset.longitude)}

Range(seq) == {seq[k] : k \in 1..Len(seq)}

RatMax(a, b) == IF RatLeq(a, b) THEN b ELSE a

\* sum(field * mask) / sum(mask) over one [lat][lon] slice
WeightedMean(slice, mask) ==
    LET f == Flatten(slice)
        w == Flatten(mask)
    IN  RatDiv(RatSum([k \in 1..Len(f) |-> RatMul(f[k], w[k])]), RatSum(w))

\* one weighted mean per time step
SpatialMeanSeries(field, mask) == [t \in 1..Len(field) |-> WeightedMean(field[t], mask)]

MaskSum(mask) == RatSum(Flatten(mask))

----------------------------------------------------------------------------
(* C1: every cell of the returned mask is 1.0 exactly when its centre is   *)
(* contained by any of the geometries matched for COUNTRY, a second or     *)
(* later matched record included.                                          *)
C1_MaskTestsEveryPart ==
    CountryReturned =>
        \A c \in Cells :
            outcome.value[2][c[1]][c[2]] =
                IF \E r \in MatchedRecords : contains(countries_shp[r].geometry, Centre(c[1], c[2]))
                THEN Rat(1) ELSE Rat(0)

(* C2 as stated: a COUNTRY that matches no record ends in a lookup failure *)
(* before the weather file is opened and before any mask is built.         *)
C2_FailsBeforeFileIsOpened ==
    (CountryCall /\ MatchedRecords = {}) =>
        /\ outcome.kind \in {"IndexError", "KeyError", "LookupError"}
        /\ "Dataset" \notin Range(frame.io)
        /\ "MASK_MATRIX" \notin DOMAIN frame

(* C2 amended: a COUNTRY that matches no record ends in an IndexError, a   *)
(* lookup failure, raised by the mask loop after the weather file has been *)
(* opened, read and closed and the zero mask vector allocated; the call    *)
(* returns neither a mask nor masked data.                                 *)
C2_FailsAfterFileIsRead ==
    (CountryCall /\ MatchedRecords = {}) =>
        /\ outcome.kind = "IndexError"
        /\ "value" \notin DOMAIN outcome
        /\ frame.io = <<"shpreader.Reader", "Dataset", "close">>
        /\ frame.country_shapely = <<>>
        /\ Range(frame.MASK_MATRIX) = {Rat(0)}

C2_Witness ==
    /\ CountryCall /\ call.COUNTRY = "Atlantis" /\ MatchedRecords = {}
    /\ outcome.kind = "IndexError"
    /\ Len(frame.MASK_MATRIX) > 1

(* C3: for a [time,lat,lon] temperature array calc_hdd_cdd returns two     *)
(* series with one entry per time step, HDD[i] = max(0, 15.5 - T[i]) and   *)
(* CDD[i] = max(0, T[i] - 22.0), T the mask-weighted spatial mean.         *)
C3_DegreeDays ==
    (call.fn = "calc_hdd_cdd" /\ call.t2m_array.ndim = 3
        /\ MaskSum(call.country_mask.v) # Rat(0)) =>
        /\ outcome.kind = "returned"
        /\ LET T == SpatialMeanSeries(call.t2m_array.v, call.country_mask.v)
           IN  /\ outcome.value[1] =
                     Series([i \in 1..Len(T) |-> RatMax(Rat(0), RatSub(HDD_THRESHOLD, T[i]))])
               /\ outcome.value[2] =
                     Series([i \in 1..Len(T) |-> RatMax(Rat(0), RatSub(T[i], CDD_THRESHOLD))])

(* C4: the spatial mean computed in calc_hdd_cdd and in solar_PV_model is  *)
(* a series with one mask-weighted mean per time step.                     *)
C4_SpatialMeanPerTimeStep ==
    /\ (call.fn = "calc_hdd_cdd" /\ call.t2m_array.ndim = 3
            /\ MaskSum(call.country_mask.v) # Rat(0)) =>
          /\ "spatial_mean_t2m" \in DOMAIN frame
          /\ frame.spatial_mean_t2m =
                Series(SpatialMeanSeries(call.t2m_array.v, call.country_mask.v))
    /\ (call.fn = "solar_PV_model" /\ MaskSum(call.mask.v) # Rat(0)) =>
          /\ outcome.kind = "returned"
          /\ outcome.value.ndim = 1
          /\ Len(outcome.value.v) = Len(call.country_masked_data_T2m.v)

(* C5: solar_PV_model returns, per time step, the mask-weighted mean of    *)
(* eff_ref*(1 - beta_ref*(T - T_ref))*(irradiance/G_ref) of its arguments. *)
C5_SolarCapacityFactor ==
    (call.fn = "solar_PV_model" /\ MaskSum(call.mask.v) # Rat(0)) =>
        /\ outcome.kind = "returned"
        /\ LET T == call.country_masked_data_T2m.v
               G == call.country_masked_data_ssrd.v
               cf == [t \in 1..Len(T) |-> [j \in 1..Len(T[t]) |-> [i \in 1..Len(T[t][j]) |->
                        capacity_factor_of_pannel(T[t][j][i], G[t][j][i])]]]
           IN  outcome.value = Series(SpatialMeanSeries(cf, call.mask.v))

(* C6: calc_national_wd_demand_2017 returns b0 + b1*HDD[i] + b2*CDD[i] per *)
(* time step with the coefficients of COUNTRY, and fails with a lookup     *)
(* error when COUNTRY has no coefficient row.                              *)
C6_DemandRegression ==
    call.fn = "calc_national_wd_demand_2017" =>
        IF call.COUNTRY \in DOMAIN RegressionCoefficients
        THEN /\ outcome.kind = "returned"
             /\ LET b == RegressionCoefficients[call.COUNTRY]
                IN  outcome.value =
                       Series([i \in 1..Len(call.hdd.v) |->
                          RatAdd(b[1], RatAdd(RatMul(b[2], call.hdd.v[i]),
                                              RatMul(b[3], call.cdd.v[i])))])
        ELSE outcome.kind \in {"KeyError", "IndexError", "LookupError"}

\* a call of one of the two loaders, and the converted array it produced
LoaderCall == call.fn \in {"load_weather_data_daily", "load_country_weather_data"}

LoadedData == IF call.fn = "load_weather_data_daily" THEN outcome.value[1] ELSE frame.data

ConvertedOnce(nc_key, raw, conv) ==
    /\ Len(conv) = Len(raw)
    /\ \A t \in 1..Len(raw) :
        /\ Len(conv[t]) = Len(raw[t])
        /\ \A j \in 1..Len(raw[t]) :
            /\ Len(conv[t][j]) = Len(raw[t][j])
            /\ \A i \in 1..Len(raw[t][j]) :
                IF nc_key = "t2m" THEN RatAdd(conv[t][j][i], Norm(27315, 100)) = raw[t][j][i]
                ELSE IF nc_key = "ssrd" THEN RatMul(conv[t][j][i], Rat(3600)) = raw[t][j][i]
                ELSE conv[t][j][i] = raw[t][j][i]

(* C7: each loader call converts the values read for nc_key once: t2m has  *)
(* 273.15 subtracted, ssrd is divided by 3600, any other key is passed     *)
(* through; a loader call that follows a loader call for the same key      *)
(* yields the identical array.                                             *)
C7_UnitConversion ==
    [][LoaderCall' =>
        /\ ConvertedOnce(call'.nc_key, dataset.variables[call'.nc_key], LoadedData')
        /\ (LoaderCall /\ call.nc_key = call'.nc_key) => LoadedData' = LoadedData]_vars

C7_Witness ==
    /\ call.fn = "load_weather_data_daily" /\ call.nc_key = "t2m"
    /\ outcome.kind = "returned"
    /\ dataset.variables["t2m"][1][1][1] = Norm(29815, 100)
    /\ outcome.value[1][1][1][1] = Rat(25)

(* C8: load_weather_data_daily returns (weather data, latitudes,           *)
(* longitudes), so the driver's unpacking binds lats to the file's         *)
(* latitude variable and lons to its longitude variable.                   *)
C8_ReturnOrder ==
    /\ call.fn = "load_weather_data_daily" =>
          outcome.value[2] = dataset.latitude /\ outcome.value[3] = dataset.longitude
    /\ call.fn = "load_a_netcdf_example" =>
          frame.lats = dataset.latitude /\ frame.lons = dataset.longitude

(* C9: the returned mask has shape [len(lats), len(lons)], entry [j,i] is  *)
(* 1.0 or 0.0 and stands for the point (lons[i], lats[j]): it is 1.0       *)
(* exactly when the tested geometry contains that point; the masked data   *)
(* is the converted value where the mask is 1.0 and 0 where it is 0.0, at  *)
(* every time step.                                                        *)
C9_MaskShapeAndMaskedData ==
    CountryReturned =>
        LET masked == outcome.value[1]
            mask == outcome.value[2]
        IN  /\ Len(mask) = Len(dataset.latitude)
            /\ \A j \in 1..Len(mask) : Len(mask[j]) = Len(dataset.longitude)
            /\ \A c \in Cells :
                /\ mask[c[1]][c[2]] \in {Rat(0), Rat(1)}
                /\ mask[c[1]][c[2]] = Rat(1) <=> contains(FirstMatched, Centre(c[1], c[2]))
            /\ Len(masked) = Len(dataset.variables[call.nc_key])
            /\ \A t \in 1..Len(masked) :
                /\ Len(masked[t]) = Len(mask)
                /\ \A j \in 1..Len(mask) :
                    /\ Len(masked[t][j]) = Len(mask[j])
                    /\ \A i \in 1..Len(mask[j]) :
                        masked[t][j][i] =
                            IF mask[j][i] = Rat(1) THEN frame.data[t][j][i] ELSE Rat(0)

C9_Witness ==
    /\ CountryReturned
    /\ Len(outcome.value[2]) = 2 /\ Len(outcome.value[2][1]) = 3
    /\ Len(outcome.value[1]) = 2
    /\ Range(Flatten(outcome.value[2])) = {Rat(0), Rat(1)}
    /\ \E c \in Cells :
        /\ outcome.value[2][c[1]][c[2]] = Rat(0)
        /\ frame.data[2][c[1]][c[2]] # Rat(0)
        /\ outcome.value[1][2][c[1]][c[2]] = Rat(0)

(* C10 as stated: a cell centre exactly on the boundary of the tested      *)
(* polygon gets mask value 1.0.                                            *)
C10_BoundaryIsInside ==
    CountryReturned =>
        \A c \in Cells :
            OnBoundary(FirstMatched, Centre(c[1], c[2])) => outcome.value[2][c[1]][c[2]] = Rat(1)

(* C10 amended: a cell centre exactly on the boundary (an edge or a        *)
(* vertex) of the tested polygon is treated as outside and gets 0.0.       *)
C10_BoundaryIsOutside ==
    CountryReturned =>
        \A c \in Cells :
            OnBoundary(FirstMatched, Centre(c[1], c[2])) => outcome.value[2][c[1]][c[2]] = Rat(0)

C10_Witness ==
    /\ CountryReturned
    /\ \E c \in Cells :
        /\ OnBoundary(FirstMatched, Centre(c[1], c[2]))
        /\ outcome.value[2][c[1]][c[2]] = Rat(0)
    /\ \E c \in Cells : outcome.value[2][c[1]][c[2]] = Rat(1)

====
